---- MODULE Spec2Model ----
(***************************************************************************)
(* Model of run_ms_qdr.py: the MS-QDR scoring pipeline.  One run loads the *)
(* class records, scans the dependency edges, freezes the per-column       *)
(* (median, MAD) statistics, scores every class, derives p20/p50, decides, *)
(* formats the numeric fields to two decimals and writes three tables.     *)
(*                                                                         *)
(* Number representation.  Python floats are modelled by exact fractions   *)
(* over fixed denominators:                                                *)
(*   metric values, medians, MADs : integer / MetricScale                  *)
(*   per-metric risks             : integer / RiskUnit                     *)
(*   category risks               : integer / CatDen   (CatDen = 6*RiskUnit)*)
(*   R_class                      : integer / (100 * CatDen)               *)
(*   CQS                          : integer / CatDen                       *)
(* The logistic curve is tabulated at steps of 0.1 and interpolated, so a  *)
(* risk strictly inside (0,1) is accurate to about 2e-4; the saturated     *)
(* values 0.0 and 1.0 and the centre 0.5 are exact.  The 1e-9 added to the *)
(* scale decides the result when MAD = 0 and is kept there; with MAD > 0   *)
(* it moves z by less than one part in 10^6 and is dropped, so two risks   *)
(* that differ only by that term are equal here.  Line 180 is modelled a   *)
(* second time in binary64 (Cqs64) for R_class values close to 0.  Strings *)
(* are sequences of character codes, compared the way Python compares str. *)
(***************************************************************************)
EXTENDS Integers, Sequences, FiniteSets, TLC

\* ------------------------------------------------------------------ bounds
MaxClasses == 3
MaxScoreEdges == 2
MaxDepClasses == 2
MaxDepEdges == 2
MaxSvcClasses == 3
PopSize == 10
MaxMix == 4
MaxProbe == 12
MaxIndexN == 40

\* -------------------------------------------------------- generic helpers
Abs(x) == IF x < 0 THEN -x ELSE x

Sgn(x) == IF x < 0 THEN -1 ELSE IF x > 0 THEN 1 ELSE 0

Min2(a, b) == IF a <= b THEN a ELSE b

Max2(a, b) == IF a >= b THEN a ELSE b

RECURSIVE Gcd(_, _)
Gcd(a, b) == IF b = 0 THEN a ELSE Gcd(b, a % b)

RECURSIVE LcmUpTo(_)
LcmUpTo(n) == IF n <= 1 THEN 1
              ELSE LET l == LcmUpTo(n - 1) IN (l * n) \div Gcd(l, n)

RECURSIVE SumSeq(_)
SumSeq(s) == IF s = <<>> THEN 0 ELSE Head(s) + SumSeq(Tail(s))

\* Nearest, ties away from zero (what round() is often taken to do).
RoundHalfUp(n, d) == (2 * n + d) \div (2 * d)

\* Python's round() and the rounding of the "f" format: nearest, ties to even.
RoundHalfEven(n, d) ==
    LET q == n \div d
        r == n % d
    IN IF 2 * r < d THEN q
       ELSE IF 2 * r > d THEN q + 1
       ELSE IF q % 2 = 0 THEN q ELSE q + 1

\* Python's ordering of sequences (str, tuple): first difference decides, a
\* proper prefix is smaller.
RECURSIVE LexLess(_, _)
LexLess(a, b) ==
    IF b = <<>> THEN FALSE
    ELSE IF a = <<>> THEN TRUE
    ELSE IF Head(a) < Head(b) THEN TRUE
    ELSE IF Head(a) > Head(b) THEN FALSE
    ELSE LexLess(Tail(a), Tail(b))

\* list.sort(key=...) / sorted(key=...): stable, ascending by key.  Items are
\* records with a field "key" (a sequence of integers).
RECURSIVE InsertByKey(_, _)
InsertByKey(sorted, item) ==
    IF sorted = <<>> THEN <<item>>
    ELSE IF LexLess(item.key, Head(sorted).key)
         THEN <<item>> \o sorted
         ELSE <<Head(sorted)>> \o InsertByKey(Tail(sorted), item)

RECURSIVE StableSort(_)
StableSort(items) ==
    IF items = <<>> THEN <<>>
    ELSE InsertByKey(StableSort(SubSeq(items, 1, Len(items) - 1)), items[Len(items)])

SortedNums(s) ==
    LET keyed == [i \in 1..Len(s) |-> [key |-> <<s[i]>>, val |-> s[i]]]
        srt == StableSort(keyed)
    IN [i \in 1..Len(s) |-> srt[i].val]

\* ----------------------------------------------------------------- strings
Lower(s) == [i \in 1..Len(s) |-> IF s[i] >= 65 /\ s[i] <= 90 THEN s[i] + 32 ELSE s[i]]

RECURSIVE DecDigits(_)
DecDigits(n) == IF n < 10 THEN <<48 + n>> ELSE Append(DecDigits(n \div 10), 48 + (n % 10))

\* f"{v:.2f}" for v = n/d >= 0: the text of v rounded to two decimals.
Fmt2(n, d) ==
    LET g == Gcd(100, d)
        h == RoundHalfEven(n * (100 \div g), d \div g)
    IN DecDigits(h \div 100) \o <<46, 48 + ((h % 100) \div 10), 48 + (h % 10)>>

\* The number a two-decimal text denotes, in hundredths.
RECURSIVE DigitsValue(_)
DigitsValue(s) == IF s = <<>> THEN 0 ELSE 10 * DigitsValue(SubSeq(s, 1, Len(s) - 1)) + (s[Len(s)] - 48)

Hundredths(s) == DigitsValue(SubSeq(s, 1, Len(s) - 3)) * 100 + DigitsValue(SubSeq(s, Len(s) - 1, Len(s)))

\* ------------------------------------------------------------------- state
VARIABLES
    pc,          \* the block of main() that runs next
    rawClasses,  \* data["classes"] of raw_metrics.json
    rawEdges,    \* the rows of dependencies.csv, [s, t]; 0 is a missing cell
    classes,     \* the normalised class records
    ei,          \* number of edge rows already read
    fanin,       \* defaultdict(int): class id -> count
    fanout,      \* defaultdict(int): class id -> count
    stats,       \* metric -> (median, MAD)
    class_rows,  \* one row per class
    p20,
    p50,
    files,       \* the tables written so far: name -> rows
    fine         \* line 180 alone, in binary64: [R, CQS] of two classes

vars == <<pc, rawClasses, rawEdges, classes, ei, fanin, fanout, stats, class_rows,
          p20, p50, files, fine>>

\* ------------------------------------------------------------ number scales
\* Metric values are stored as value * MetricScale.  FanIn + FanOut of a class
\* is at most twice the number of edge rows of the run, so every quotient
\* FanOut / (FanIn + FanOut), every median of two values and every median of
\* two absolute deviations is an integer.
MetricScale == 4 * LcmUpTo(2 * Len(rawEdges))

RiskUnit == 1000 * 1000

CatDen == 6 * RiskUnit

\* ----------------------------------------------------------- pure functions
\* statistics.median: the middle value, or the mean of the two middle values.
Median(values) ==
    LET s == SortedNums(values)
        n == Len(s)
    IN IF n % 2 = 1 THEN s[(n + 1) \div 2]
       ELSE (s[n \div 2] + s[(n \div 2) + 1]) \div 2

Mad(values) ==
    IF values = <<>> THEN 0
    ELSE LET m == Median(values)
         IN Median([i \in 1..Len(values) |-> Abs(values[i] - m)])

\* 1e6 / (1 + exp(-k/10)) for k = 0..134, rounded; from k = 135 up to the
\* saturation point the curve stays below 1.0 and is held at 999999.
LogisticTable ==
    <<500000, 524979, 549834, 574443, 598688, 622459, 645656, 668188, 689974, 710950,
      731059, 750260, 768525, 785835, 802184, 817574, 832018, 845535, 858149, 869892,
      880797, 890903, 900250, 908877, 916827, 924142, 930862, 937027, 942676, 947846,
      952574, 956893, 960834, 964429, 967705, 970688, 973403, 975873, 978119, 980160,
      982014, 983698, 985226, 986613, 987872, 989013, 990048, 990987, 991837, 992608,
      993307, 993940, 994514, 995033, 995504, 995930, 996316, 996665, 996982, 997268,
      997527, 997762, 997975, 998167, 998341, 998499, 998641, 998771, 998887, 998993,
      999089, 999176, 999254, 999325, 999389, 999447, 999500, 999547, 999590, 999629,
      999665, 999697, 999725, 999752, 999775, 999797, 999816, 999833, 999849, 999864,
      999877, 999888, 999899, 999909, 999917, 999925, 999932, 999939, 999945, 999950,
      999955, 999959, 999963, 999966, 999970, 999972, 999975, 999977, 999980, 999982,
      999983, 999985, 999986, 999988, 999989, 999990, 999991, 999992, 999992, 999993,
      999994, 999994, 999995, 999995, 999996, 999996, 999997, 999997, 999997, 999998,
      999998, 999998, 999998, 999998, 999998>>

LogisticAt(k) == IF k + 1 <= Len(LogisticTable) THEN LogisticTable[k + 1] ELSE RiskUnit - 1

\* 1.0 / (1.0 + math.exp(-x)) for x = zn / zd in [0, 30], zd > 0: x is taken in
\* thousandths, the curve between two table points as a straight line.
LogisticPos(zn, zd) ==
    LET zm == (zn \div zd) * 1000 + ((zn % zd) * 1000) \div zd
        k == zm \div 100
        lo == LogisticAt(k)
        hi == LogisticAt(k + 1)
    IN lo + ((hi - lo) * (zm % 100)) \div 100

\* sigmoid(x) for x = zn / zd, zd > 0.
Sigmoid(zn, zd) ==
    IF zn < (-30) * zd THEN 0
    ELSE IF zn > 30 * zd THEN RiskUnit
    ELSE IF zn >= 0 THEN LogisticPos(zn, zd)
    ELSE RiskUnit - LogisticPos(-zn, zd)

\* robust_risk with a guard that returns the neutral 0.5 for a zero MAD instead
\* of adding the epsilon.
RobustRisk_ZeroMadNeutral(x, med, mad_val) ==
    LET a == x - med
    IN IF mad_val = 0 THEN RiskUnit \div 2
       ELSE LET g == Gcd(Abs(a), mad_val)
            IN Sigmoid((a \div g) * 10000, 14826 * (mad_val \div g))

\* robust_risk(x, med, mad_val) with alpha = 1.0.  denom = 1.4826 * mad_val +
\* 1e-9.  With mad_val = 0 the quotient is (x - med) * 1e9, and a non-zero
\* x - med is at least 1 / MetricScale.  With mad_val > 0 the 1e-9 shifts z by
\* less than one part in 10^6 and is dropped.
RobustRisk(x, med, mad_val) ==
    LET a == x - med
    IN IF mad_val = 0 THEN Sigmoid(Sgn(a) * 1000000000, MetricScale)
       ELSE LET g == Gcd(Abs(a), mad_val)
            IN Sigmoid((a \div g) * 10000, 14826 * (mad_val \div g))

\* avg(xs) of per-metric risks, as a category risk over CatDen.
Avg(xs) == IF xs = <<>> THEN 0 ELSE (SumSeq(xs) * (CatDen \div RiskUnit)) \div Len(xs)

\* Line 179 with the architecture weight 0.30: the weights sum to 1.10.
RClass_WeightsOverOne(R_size, R_complexity, R_coupling, R_architecture) ==
    20 * R_size + 25 * R_complexity + 35 * R_coupling + 30 * R_architecture

\* R_class over 100 * CatDen.
RClass(R_size, R_complexity, R_coupling, R_architecture) ==
    20 * R_size + 25 * R_complexity + 35 * R_coupling + 20 * R_architecture

\* CQS = 100.0 * (1.0 - R_class), over CatDen.
Cqs(R_class) == 100 * CatDen - R_class

\* -------------------------------------------------------------- vocabulary
base_metrics == <<"LOC", "NOM", "NOF", "WMC", "RFC", "CBO", "Cyclomatic",
                  "LayerViolations", "CycleInvolvement">>

derived_metrics == <<"FanIn", "FanOut", "Instability">>

Range(s) == {s[i] : i \in 1..Len(s)}

AllMetrics == Range(base_metrics) \cup Range(derived_metrics)

\* "Unknown", the default service label of norm_class.
Unknown == <<85, 110, 107, 110, 111, 119, 110>>

action_map ==
    [size |-> "Split large classes, extract cohesive responsibilities, reduce method/field count.",
     complexity |-> "Decompose complex methods, reduce branching, introduce strategy/polymorphism where suitable.",
     coupling |-> "Reduce dependencies via DI + interfaces, facades, avoid reaching into many modules; extract smaller components.",
     architecture |-> "Fix layer violations (move code to correct layer), break cycles via interfaces/events, enforce boundaries."]

TableNames == {"detailed", "refactor", "summary"}

\* dict.get(k, default) / defaultdict lookup without insertion.
Get(d, k, default) == IF k \in DOMAIN d THEN d[k] ELSE default

\* _get(d, *keys, default): the first key present wins.
RECURSIVE GetFirst(_, _, _)
GetFirst(d, keys, default) ==
    IF keys = <<>> THEN default
    ELSE IF Head(keys) \in DOMAIN d THEN d[Head(keys)]
    ELSE GetFirst(d, Tail(keys), default)

\* defaultdict(int)[k] += 1
Inc(d, k) == [x \in (DOMAIN d) \cup {k} |-> IF x = k THEN Get(d, k, 0) + 1 ELSE d[x]]

norm_class(c) ==
    [id |-> GetFirst(c, <<"id", "Id">>, 0),
     service |-> GetFirst(c, <<"service", "Service">>, Unknown),
     metrics |-> GetFirst(c, <<"metrics", "Metrics">>, <<>>)]

\* ------------------------------------------------------- steps of main()
\* The metric vector of one class (lines 136-144 and 152-156), times MetricScale.
Mets(c) ==
    LET fi == Get(fanin, c.id, 0)
        fo == Get(fanout, c.id, 0)
        denom == fi + fo
    IN [m \in AllMetrics |->
          IF m = "FanIn" THEN fi * MetricScale
          ELSE IF m = "FanOut" THEN fo * MetricScale
          ELSE IF m = "Instability"
               THEN (IF denom > 0 THEN (fo * MetricScale) \div denom ELSE 0)
          ELSE Get(c.metrics, m, 0) * MetricScale]

\* Lines 109-113: load and normalise; an empty collection is fatal.
Load ==
    /\ pc = "load"
    /\ classes' = [i \in 1..Len(rawClasses) |-> norm_class(rawClasses[i])]
    /\ pc' = IF classes' = <<>> THEN "aborted" ELSE "scan"
    /\ UNCHANGED <<rawClasses, rawEdges, ei, fanin, fanout, stats, class_rows, p20, p50, files, fine>>

\* Lines 120-126 with "if not s and not t": a row is skipped only when both
\* cells are missing.
ScanEdge_SkipBothMissing ==
    /\ pc = "scan"
    /\ ei < Len(rawEdges)
    /\ LET row == rawEdges[ei + 1]
       IN IF row.s = 0 /\ row.t = 0
          THEN UNCHANGED <<fanin, fanout>>
          ELSE /\ fanout' = Inc(fanout, row.s)
               /\ fanin' = Inc(fanin, row.t)
    /\ ei' = ei + 1
    /\ UNCHANGED <<pc, rawClasses, rawEdges, classes, stats, class_rows, p20, p50, files, fine>>

\* Lines 120-126: one row of the edge list.
ScanEdge ==
    /\ pc = "scan"
    /\ ei < Len(rawEdges)
    /\ LET row == rawEdges[ei + 1]
       IN IF row.s = 0 \/ row.t = 0
          THEN UNCHANGED <<fanin, fanout>>
          ELSE /\ fanout' = Inc(fanout, row.s)
               /\ fanin' = Inc(fanin, row.t)
    /\ ei' = ei + 1
    /\ UNCHANGED <<pc, rawClasses, rawEdges, classes, stats, class_rows, p20, p50, files, fine>>

\* Lines 128-146: collect every column and freeze its (median, MAD).
CollectStats ==
    /\ pc = "scan"
    /\ ei = Len(rawEdges)
    /\ LET all_vals == [m \in AllMetrics |-> [i \in 1..Len(classes) |-> Mets(classes[i])[m]]]
       IN stats' = [m \in AllMetrics |-> [med |-> Median(all_vals[m]), mad |-> Mad(all_vals[m])]]
    /\ pc' = "score"
    /\ UNCHANGED <<rawClasses, rawEdges, classes, ei, fanin, fanout, class_rows, p20, p50, files, fine>>

\* Lines 149-195: the row of one class.
ScoreRow(c) ==
    LET mets == Mets(c)
        r == [m \in AllMetrics |-> RobustRisk(mets[m], stats[m].med, stats[m].mad)]
        R_size == Avg(<<r["LOC"], r["NOM"], r["NOF"]>>)
        R_complexity == Avg(<<r["WMC"], r["RFC"], r["Cyclomatic"]>>)
        R_coupling == Avg(<<r["CBO"], r["FanOut"], r["Instability"]>>)
        R_architecture == Avg(<<r["LayerViolations"], r["CycleInvolvement"]>>)
        R_class == RClass(R_size, R_complexity, R_coupling, R_architecture)
    IN [Service |-> c.service, ClassId |-> c.id, mets |-> mets,
        R_size |-> R_size, R_complexity |-> R_complexity,
        R_coupling |-> R_coupling, R_architecture |-> R_architecture,
        CQS |-> Cqs(R_class),
        Decision |-> "", PrimaryCause |-> "", RecommendedAction |-> ""]

Score ==
    /\ pc = "score"
    /\ class_rows' = [i \in 1..Len(classes) |-> ScoreRow(classes[i])]
    /\ pc' = "percentile"
    /\ UNCHANGED <<rawClasses, rawEdges, classes, ei, fanin, fanout, stats, p20, p50, files, fine>>

\* percentile(p) reading the sorted list from its top, as over a list sorted
\* with reverse=True.
percentile_Descending(cqs_vals, p) ==
    IF cqs_vals = <<>> THEN 0
    ELSE LET k == RoundHalfEven((Len(cqs_vals) - 1) * p, 100)
         IN cqs_vals[Len(cqs_vals) - Max2(0, Min2(Len(cqs_vals) - 1, k))]

\* Lines 197-202: percentile(p) of the sorted CQS values, p in hundredths.
percentile(cqs_vals, p) ==
    IF cqs_vals = <<>> THEN 0
    ELSE LET k == RoundHalfEven((Len(cqs_vals) - 1) * p, 100)
         IN cqs_vals[Max2(0, Min2(Len(cqs_vals) - 1, k)) + 1]

Percentiles ==
    /\ pc = "percentile"
    /\ LET cqs_vals == SortedNums([i \in 1..Len(class_rows) |-> class_rows[i].CQS])
       IN /\ p20' = percentile(cqs_vals, 20)
          /\ p50' = percentile(cqs_vals, 50)
    /\ pc' = "decide"
    /\ UNCHANGED <<rawClasses, rawEdges, classes, ei, fanin, fanout, stats, class_rows, files, fine>>

\* A category risk r (over CatDen) is at least t hundredths.
AtLeast(r, t) == r * 100 >= t * CatDen

\* Lines 216-221 with "<" in place of "<=" in the p20 test.
Decision_StrictP20(r, q20, q50) ==
    IF r.CQS < q20 \/ AtLeast(r.R_coupling, 75) \/ AtLeast(r.R_architecture, 70)
    THEN "REFACTOR"
    ELSE IF r.CQS <= q50 \/ AtLeast(r.R_complexity, 70)
    THEN "WATCH"
    ELSE "OK"

\* Lines 216-221.
Decision(r, q20, q50) ==
    IF r.CQS <= q20 \/ AtLeast(r.R_coupling, 75) \/ AtLeast(r.R_architecture, 70)
    THEN "REFACTOR"
    ELSE IF r.CQS <= q50 \/ AtLeast(r.R_complexity, 70)
    THEN "WATCH"
    ELSE "OK"

\* Lines 223-230 with an ascending sort and causes[-1]: of several categories
\* with the highest risk the last one wins.
PrimaryCause_LastOfTied(r) ==
    LET causes == <<[name |-> "size", key |-> <<r.R_size>>],
                    [name |-> "complexity", key |-> <<r.R_complexity>>],
                    [name |-> "coupling", key |-> <<r.R_coupling>>],
                    [name |-> "architecture", key |-> <<r.R_architecture>>]>>
    IN StableSort(causes)[4].name

\* Lines 223-230: the first of the causes sorted by risk, highest first.
PrimaryCause(r) ==
    LET causes == <<[name |-> "size", key |-> <<-r.R_size>>],
                    [name |-> "complexity", key |-> <<-r.R_complexity>>],
                    [name |-> "coupling", key |-> <<-r.R_coupling>>],
                    [name |-> "architecture", key |-> <<-r.R_architecture>>]>>
    IN StableSort(causes)[1].name

\* Lines 214-233 with the loop stopping one row early: the last row keeps no
\* decision.
Decide_SkipLast ==
    /\ pc = "decide"
    /\ class_rows' = [i \in 1..Len(class_rows) |->
          LET r == class_rows[i]
              primary == PrimaryCause(r)
          IN IF i = Len(class_rows) THEN r
             ELSE [r EXCEPT !.Decision = Decision(r, p20, p50),
                            !.PrimaryCause = primary,
                            !.RecommendedAction = Get(action_map, primary, "")]]
    /\ pc' = "format"
    /\ UNCHANGED <<rawClasses, rawEdges, classes, ei, fanin, fanout, stats, p20, p50, files, fine>>

\* Lines 214-233.
Decide ==
    /\ pc = "decide"
    /\ class_rows' = [i \in 1..Len(class_rows) |->
          LET r == class_rows[i]
              primary == PrimaryCause(r)
          IN [r EXCEPT !.Decision = Decision(r, p20, p50),
                       !.PrimaryCause = primary,
                       !.RecommendedAction = Get(action_map, primary, "")]]
    /\ pc' = "format"
    /\ UNCHANGED <<rawClasses, rawEdges, classes, ei, fanin, fanout, stats, p20, p50, files, fine>>

\* Lines 244-249: every numeric field becomes its two-decimal text.
Format ==
    /\ pc = "format"
    /\ class_rows' = [i \in 1..Len(class_rows) |->
          LET r == class_rows[i]
          IN [r EXCEPT !.mets = [m \in AllMetrics |-> Fmt2(r.mets[m], MetricScale)],
                       !.R_size = Fmt2(r.R_size, CatDen),
                       !.R_complexity = Fmt2(r.R_complexity, CatDen),
                       !.R_coupling = Fmt2(r.R_coupling, CatDen),
                       !.R_architecture = Fmt2(r.R_architecture, CatDen),
                       !.CQS = Fmt2(r.CQS, CatDen)]]
    /\ pc' = "write_detailed"
    /\ UNCHANGED <<rawClasses, rawEdges, classes, ei, fanin, fanout, stats, p20, p50, files, fine>>

\* open(path, "w") followed by the rows.
WriteFile(name, rows) == [n \in (DOMAIN files) \cup {name} |-> IF n = name THEN rows ELSE files[n]]

\* Lines 251-255.
WriteDetailed ==
    /\ pc = "write_detailed"
    /\ files' = WriteFile("detailed", class_rows)
    /\ pc' = "write_refactor"
    /\ UNCHANGED <<rawClasses, rawEdges, classes, ei, fanin, fanout, stats, class_rows, p20, p50, fine>>

RECURSIVE SelectRows(_, _)
SelectRows(rows, decision) ==
    IF rows = <<>> THEN <<>>
    ELSE IF Head(rows).Decision = decision
         THEN <<Head(rows)>> \o SelectRows(Tail(rows), decision)
         ELSE SelectRows(Tail(rows), decision)

\* Lines 259-260: the REFACTOR rows, sorted by their "CQS" field.
RefRows(rows) ==
    LET ref_rows == SelectRows(rows, "REFACTOR")
        keyed == [i \in 1..Len(ref_rows) |-> [key |-> ref_rows[i].CQS, row |-> ref_rows[i]]]
        srt == StableSort(keyed)
    IN [i \in 1..Len(ref_rows) |-> srt[i].row]

\* Lines 258-265.
WriteRefactor ==
    /\ pc = "write_refactor"
    /\ files' = WriteFile("refactor", RefRows(class_rows))
    /\ pc' = "write_summary"
    /\ UNCHANGED <<rawClasses, rawEdges, classes, ei, fanin, fanout, stats, class_rows, p20, p50, fine>>

\* Lines 269-271 with the groups keyed by the lower-cased label.
RECURSIVE BySvcAdd_IgnoreCase(_, _, _)
BySvcAdd_IgnoreCase(groups, svc, dec) ==
    IF groups = <<>> THEN <<[Service |-> svc, decs |-> <<dec>>]>>
    ELSE IF Lower(Head(groups).Service) = Lower(svc)
         THEN <<[Head(groups) EXCEPT !.decs = Append(@, dec)]>> \o Tail(groups)
         ELSE <<Head(groups)>> \o BySvcAdd_IgnoreCase(Tail(groups), svc, dec)

\* Lines 269-271: the decisions of each service, services in order of first
\* appearance.
RECURSIVE BySvcAdd(_, _, _)
BySvcAdd(groups, svc, dec) ==
    IF groups = <<>> THEN <<[Service |-> svc, decs |-> <<dec>>]>>
    ELSE IF Head(groups).Service = svc
         THEN <<[Head(groups) EXCEPT !.decs = Append(@, dec)]>> \o Tail(groups)
         ELSE <<Head(groups)>> \o BySvcAdd(Tail(groups), svc, dec)

RECURSIVE by_service(_)
by_service(rows) ==
    IF rows = <<>> THEN <<>>
    ELSE LET last == rows[Len(rows)]
         IN BySvcAdd(by_service(SubSeq(rows, 1, Len(rows) - 1)), last.Service, last.Decision)

\* Counter(decs).get(d, 0)
Count(decs, d) == Cardinality({i \in 1..Len(decs) : decs[i] = d})

\* Lines 275-289.
SumRows(rows) ==
    LET groups == by_service(rows)
        keyed == [i \in 1..Len(groups) |-> [key |-> Lower(groups[i].Service), g |-> groups[i]]]
        srt == StableSort(keyed)
    IN [i \in 1..Len(groups) |->
          LET decs == srt[i].g.decs
              total == Len(decs)
              ok == Count(decs, "OK")
              ref == Count(decs, "REFACTOR")
          IN [Service |-> srt[i].g.Service,
              TotalClasses |-> total,
              OK_Count |-> ok,
              WATCH_Count |-> Count(decs, "WATCH"),
              REFACTOR_Count |-> ref,
              OK_Ratio |-> IF total > 0 THEN <<ok, total>> ELSE <<0, 1>>,
              REFACTOR_Ratio |-> IF total > 0 THEN <<ref, total>> ELSE <<0, 1>>]]

\* Lines 268-295.
WriteSummary ==
    /\ pc = "write_summary"
    /\ files' = WriteFile("summary", SumRows(class_rows))
    /\ pc' = "done"
    /\ UNCHANGED <<rawClasses, rawEdges, classes, ei, fanin, fanout, stats, class_rows, p20, p50, fine>>

Next ==
    \/ Load
    \/ ScanEdge
    \/ CollectStats
    \/ Score
    \/ Percentiles
    \/ Decide
    \/ Format
    \/ WriteDetailed
    \/ WriteRefactor
    \/ WriteSummary

\* ------------------------------------------------------------------ inputs
\* Sequences over S of length 0..n.
SeqsUpTo(S, n) == UNION {[1..k -> S] : k \in 0..n}

AllHigh == [m \in Range(base_metrics) |-> 1]

\* Metric mappings of the raw records: empty (every key defaults to 0.0), one
\* category raised, all nine raised.
MetricInputs ==
    {<<>>, AllHigh, [WMC |-> 1, RFC |-> 1], [LayerViolations |-> 1]}

\* Raw records number i = 1..n, identifier i, no service key.
Population(n, metricsOf) == [i \in 1..n |-> [id |-> i, metrics |-> metricsOf[i]]]

\* Nothing computed yet.
Idle ==
    /\ classes = <<>>
    /\ ei = 0
    /\ fanin = <<>>
    /\ fanout = <<>>
    /\ stats = <<>>
    /\ class_rows = <<>>
    /\ p20 = 0
    /\ p50 = 0
    /\ files = <<>>

\* A run of main() about to read its inputs.
Start ==
    /\ pc = "load"
    /\ fine = <<>>
    /\ Idle

\* Scoring runs: up to MaxClasses classes with any of MetricInputs, and up to
\* MaxScoreEdges edge rows, each from some class to the first class.
Init ==
    /\ \E n \in 0..MaxClasses :
          /\ \E ms \in [1..n -> MetricInputs] : rawClasses = Population(n, ms)
          /\ rawEdges \in SeqsUpTo([s : 1..n, t : {1}], MaxScoreEdges)
    /\ Start

Spec == Init /\ [][Next]_vars

\* ------------------------------------------------- other families of runs
\* Dependency runs: classes without metrics, edge rows with any class or a
\* missing cell (0) on either side.
InitDeps ==
    /\ \E n \in 0..MaxDepClasses :
          /\ rawClasses = Population(n, [i \in 1..n |-> <<>>])
          /\ rawEdges \in SeqsUpTo([s : 0..n, t : 0..n], MaxDepEdges)
    /\ Start

SpecDeps == InitDeps /\ [][Next]_vars

\* Service runs: the label is absent, "A" or "a" under the key "service", or
\* "A" under the alias "Service"; metrics empty or all raised; the edge list
\* is empty or one row from the first class to itself.
ServiceInputs ==
    {<<>>, [service |-> <<65>>], [service |-> <<97>>], [Service |-> <<65>>]}

InitSvc ==
    /\ \E n \in 0..MaxSvcClasses :
          \E ms \in [1..n -> {<<>>, AllHigh}], sv \in [1..n -> ServiceInputs] :
             rawClasses = [i \in 1..n |-> [id |-> i, metrics |-> ms[i]] @@ sv[i]]
    /\ rawEdges \in SeqsUpTo([s : {1}, t : {1}], 1)
    /\ Start

SpecSvc == InitSvc /\ [][Next]_vars

\* Outlier runs: up to PopSize classes whose only metric is LOC, 10 or 1000;
\* the edge list is empty or one row from the first class to itself.
InitOutlier ==
    /\ \E n \in 0..PopSize :
          \E loc \in [1..n -> {10, 1000}] :
             rawClasses = Population(n, [i \in 1..n |-> [LOC |-> loc[i]]])
    /\ rawEdges \in SeqsUpTo([s : {1}, t : {1}], 1)
    /\ Start

SpecOutlier == InitOutlier /\ [][Next]_vars

\* Mixed runs: up to MaxMix classes, at most one edge row into the first class.
InitMix ==
    /\ \E n \in 0..MaxMix :
          /\ \E ms \in [1..n -> {<<>>, AllHigh, [WMC |-> 1, RFC |-> 1]}] :
                rawClasses = Population(n, ms)
          /\ rawEdges \in SeqsUpTo([s : 1..n, t : {1}], 1)
    /\ Start

SpecMix == InitMix /\ [][Next]_vars

\* ----------------------------------------------- line 180 in binary64
\* R_class = m * 2^-61 is a double for every 0 <= m < 2^31.  1.0 - R_class is
\* rounded to the doubles of [0.5, 1], which are 2^-53 = 256 units apart:
\* 1 - j * 2^-53.  100.0 * that is rounded to the doubles of [64, 128], which
\* are 2^-46 apart: 100 - d * 2^-46.  Cqs64 is d: the larger d, the smaller CQS.
Cqs64(m) ==
    LET j == RoundHalfEven(m, 256)
    IN RoundHalfEven(100 * j, 128)

\* R_class values around 6.4e-15 (what a class far below the median of one
\* column and saturated at 0.0 in the others gets), 2^-55 apart.
TinyR == {56 * 256 + 64 * i : i \in 0..MaxProbe}

InitProbe ==
    /\ pc = "probe"
    /\ rawClasses = <<>>
    /\ rawEdges = <<>>
    /\ Idle
    /\ \E a \in TinyR, b \in TinyR : fine = [R |-> <<a, b>>, CQS |-> <<>>]

CqsProbe ==
    /\ pc = "probe"
    /\ fine' = [fine EXCEPT !.CQS = [i \in 1..Len(fine.R) |-> Cqs64(fine.R[i])]]
    /\ pc' = "probed"
    /\ UNCHANGED <<rawClasses, rawEdges, classes, ei, fanin, fanout, stats, class_rows,
                   p20, p50, files>>

NextCqs ==
    \/ Next
    \/ CqsProbe

SpecCqs == (Init \/ InitProbe) /\ [][NextCqs]_vars

\* =============================================================== properties
Decisions == {"OK", "WATCH", "REFACTOR"}

Causes == {"size", "complexity", "coupling", "architecture"}

CauseOrder == <<"size", "complexity", "coupling", "architecture">>

Rows == 1..Len(class_rows)

\* The rows are scored and still hold their unrounded numbers.
Scored == pc \in {"percentile", "decide", "format"}

\* The rows are scored and decided and still hold their unrounded numbers.
Decided == pc = "format"

NumWith(d) == Cardinality({i \in Rows : class_rows[i].Decision = d})

\* round((n-1)*0.2): (n-1)/5 is never half-way between two integers.
K20(n) == ((n - 1) * 2 + 5) \div 10

\* round((n-1)*0.5): exact for odd n; for even n half-way, to the even neighbour.
K50(n) ==
    LET h == (n - 1) \div 2
    IN IF (n - 1) % 2 = 0 THEN h
       ELSE IF h % 2 = 0 THEN h ELSE h + 1

\* v is the value at index k (from 0) of the ascending CQS values of the run.
IsOrderStatistic(v, k) ==
    /\ \E i \in Rows : class_rows[i].CQS = v
    /\ Cardinality({i \in Rows : class_rows[i].CQS < v}) <= k
    /\ Cardinality({i \in Rows : class_rows[i].CQS <= v}) >= k + 1

\* Coupling >= 0.75 or Architecture >= 0.70.
Override(r) ==
    \/ 4 * r.R_coupling >= 3 * CatDen
    \/ 10 * r.R_architecture >= 7 * CatDen

RefactorRule(r) == r.CQS <= p20 \/ Override(r)

WatchRule(r) ==
    /\ ~RefactorRule(r)
    /\ (r.CQS <= p50 \/ 10 * r.R_complexity >= 7 * CatDen)

\* C1: in every non-empty run each class gets exactly one decision, by first
\* match on the unrounded values: REFACTOR iff CQS <= p20 or Coupling >= 0.75
\* or Architecture >= 0.70; WATCH iff not REFACTOR and (CQS <= p50 or
\* Complexity >= 0.70); OK iff neither; p20 and p50 are the percentiles of the
\* CQS values of the same run.
C1_DecisionByFirstMatch ==
    Decided =>
       /\ class_rows # <<>>
       /\ IsOrderStatistic(p20, K20(Len(class_rows)))
       /\ IsOrderStatistic(p50, K50(Len(class_rows)))
       /\ \A i \in Rows :
             LET r == class_rows[i]
             IN /\ r.Decision \in Decisions
                /\ (r.Decision = "REFACTOR") <=> RefactorRule(r)
                /\ (r.Decision = "WATCH") <=> WatchRule(r)
                /\ (r.Decision = "OK") <=> (~RefactorRule(r) /\ ~WatchRule(r))

\* A decided run in which all three decisions occur.
C1_Witness ==
    /\ Decided
    /\ \A d \in Decisions : NumWith(d) >= 1

\* What the refactor table is required to be (C2): exactly the REFACTOR rows,
\* each once, consecutive rows ascending by the number their CQS field denotes.
C2_RefactorTableAscending ==
    "refactor" \in DOMAIN files =>
       LET t == files["refactor"]
       IN /\ \A k \in 1..Len(t) : t[k].Decision = "REFACTOR"
          /\ \A i \in Rows : class_rows[i].Decision = "REFACTOR" =>
                Cardinality({k \in 1..Len(t) : t[k] = class_rows[i]}) >= 1
          /\ Len(t) = NumWith("REFACTOR")
          /\ \A k \in 1..(Len(t) - 1) : Hundredths(t[k].CQS) <= Hundredths(t[k + 1].CQS)

\* C3: p20 <= p50, and every REFACTOR class with CQS > p50 has Coupling >= 0.75
\* or Architecture >= 0.70; the index of p20 is at most that of p50 for every
\* n from 1 to MaxIndexN.
C3_RefactorAboveMedianByOverride ==
    /\ Decided =>
          /\ p20 <= p50
          /\ \A i \in Rows :
                (class_rows[i].Decision = "REFACTOR" /\ class_rows[i].CQS > p50)
                   => Override(class_rows[i])
    /\ pc = "decide" =>
          \A n \in 1..MaxIndexN :
             /\ percentile([k \in 1..n |-> k], 20) <= percentile([k \in 1..n |-> k], 50)
             /\ percentile([k \in 1..n |-> k], 20) = K20(n) + 1
             /\ percentile([k \in 1..n |-> k], 50) = K50(n) + 1

\* A REFACTOR class above the median CQS.
C3_Witness ==
    /\ Decided
    /\ \E i \in Rows : class_rows[i].Decision = "REFACTOR" /\ class_rows[i].CQS > p50

\* The rows of the run with the exact label svc (and the decision d).
RowsOf(svc) == {i \in Rows : class_rows[i].Service = svc}

RowsOfWith(svc, d) == {i \in RowsOf(svc) : class_rows[i].Decision = d}

\* C4: in the written service summary every row's three counts add up to its
\* TotalClasses, the TotalClasses add up to the number of classes, and a row
\* counts the classes with exactly its label (case-sensitive, "Unknown" for a
\* class without label).
C4_SummaryCounts ==
    pc = "done" =>
       LET s == files["summary"]
       IN /\ \A k \in 1..Len(s) :
                /\ s[k].OK_Count + s[k].WATCH_Count + s[k].REFACTOR_Count = s[k].TotalClasses
                /\ s[k].TotalClasses = Cardinality(RowsOf(s[k].Service))
                /\ s[k].OK_Count = Cardinality(RowsOfWith(s[k].Service, "OK"))
                /\ s[k].WATCH_Count = Cardinality(RowsOfWith(s[k].Service, "WATCH"))
                /\ s[k].REFACTOR_Count = Cardinality(RowsOfWith(s[k].Service, "REFACTOR"))
          /\ SumSeq([k \in 1..Len(s) |-> s[k].TotalClasses]) = Len(classes)
          /\ \A k, l \in 1..Len(s) : s[k].Service = s[l].Service => k = l
          /\ \A i \in Rows : \E k \in 1..Len(s) : s[k].Service = class_rows[i].Service

\* A summary with the labels "A", "a" and "Unknown", one of them holding two
\* decisions.
C4_Witness ==
    /\ pc = "done"
    /\ \A svc \in {<<65>>, <<97>>, Unknown} :
          \E k \in 1..Len(files["summary"]) : files["summary"][k].Service = svc
    /\ \E i, j \in Rows : class_rows[i].Decision # class_rows[j].Decision

RiskOf(r, c) ==
    IF c = "size" THEN r.R_size
    ELSE IF c = "complexity" THEN r.R_complexity
    ELSE IF c = "coupling" THEN r.R_coupling
    ELSE r.R_architecture

\* C5: the primary cause is one of the four categories, no category has a
\* higher risk, every category before it in the order size, complexity,
\* coupling, architecture has a strictly lower risk, and the recommended
\* action is the non-empty text of that cause.
C5_PrimaryCauseHighestFirst ==
    Decided =>
       \A i \in Rows :
          LET r == class_rows[i]
          IN /\ r.PrimaryCause \in Causes
             /\ \E k \in 1..4 :
                   /\ CauseOrder[k] = r.PrimaryCause
                   /\ \A j \in 1..4 : RiskOf(r, CauseOrder[j]) <= RiskOf(r, CauseOrder[k])
                   /\ \A j \in 1..(k - 1) : RiskOf(r, CauseOrder[j]) < RiskOf(r, CauseOrder[k])
             /\ r.RecommendedAction = action_map[r.PrimaryCause]
             /\ r.RecommendedAction # ""

\* A class whose complexity and coupling risks tie for the highest, above size.
C5_Witness ==
    /\ Decided
    /\ \E i \in Rows :
          /\ class_rows[i].R_complexity = class_rows[i].R_coupling
          /\ class_rows[i].R_complexity > class_rows[i].R_size
          /\ class_rows[i].R_complexity >= class_rows[i].R_architecture
          /\ class_rows[i].PrimaryCause = "complexity"

RowDecided(r) ==
    /\ r.Decision \in Decisions
    /\ r.PrimaryCause \in Causes
    /\ r.RecommendedAction # ""

\* C6: an empty class collection aborts the run with no table written; once a
\* table is written every class has a row and every row in memory and in the
\* tables is decided, with cause and action; the tables are written in the
\* order detailed, refactor, summary, and the run is finished exactly when
\* all three are there.
C6_AllTablesOrNone ==
    /\ pc = "aborted" => (classes = <<>> /\ files = <<>>)
    /\ (rawClasses = <<>> /\ pc # "load") => pc = "aborted"
    /\ files # <<>> =>
          /\ classes # <<>>
          /\ pc \in {"write_refactor", "write_summary", "done"}
          /\ "detailed" \in DOMAIN files
          /\ Len(files["detailed"]) = Len(classes)
          /\ \A i \in Rows : RowDecided(class_rows[i])
          /\ \A n \in (DOMAIN files) \ {"summary"} :
                \A k \in 1..Len(files[n]) : RowDecided(files[n][k])
    /\ DOMAIN files \in {{}, {"detailed"}, {"detailed", "refactor"}, TableNames}
    /\ pc = "done" <=> DOMAIN files = TableNames

\* The first table has just been written for a run of several classes.
C6_Witness ==
    /\ pc = "write_refactor"
    /\ DOMAIN files = {"detailed"}
    /\ Len(files["detailed"]) >= 2
    /\ \E k \in 1..Len(files["detailed"]) : files["detailed"][k].Decision = "OK"

\* The first k edge rows that count for id as source / as target.
OutRows(id, k) == {j \in 1..k : rawEdges[j].s = id /\ rawEdges[j].t # 0}

InRows(id, k) == {j \in 1..k : rawEdges[j].t = id /\ rawEdges[j].s # 0}

\* C7: after k edge rows fanout[id] is the number of rows among them with
\* source id and a target, fanin[id] the number with target id and a source
\* (so a row missing either cell counts nowhere); in a scored row FanOut and
\* FanIn are these counts over the whole list, Instability is FanOut /
\* (FanIn + FanOut), 0.0 when both are zero, and lies in [0,1].
C7_FanCountsAndInstability ==
    /\ \A id \in (1..Len(rawClasses)) \cup (DOMAIN fanin) \cup (DOMAIN fanout) :
          /\ id # 0
          /\ Get(fanout, id, 0) = Cardinality(OutRows(id, ei))
          /\ Get(fanin, id, 0) = Cardinality(InRows(id, ei))
    /\ Scored =>
          \A i \in Rows :
             LET m == class_rows[i].mets
                 fo == Cardinality(OutRows(class_rows[i].ClassId, Len(rawEdges)))
                 fi == Cardinality(InRows(class_rows[i].ClassId, Len(rawEdges)))
             IN /\ m["FanOut"] = fo * MetricScale
                /\ m["FanIn"] = fi * MetricScale
                /\ (fi + fo = 0) => m["Instability"] = 0
                /\ (fi + fo > 0) => m["Instability"] * (fi + fo) = fo * MetricScale
                /\ 0 <= m["Instability"] /\ m["Instability"] <= MetricScale

\* A scored class with a self-edge and a second row from it that lacks its
\* target: FanIn = FanOut = 1, Instability = 0.5.
C7_Witness ==
    /\ Scored
    /\ \E i \in Rows :
          /\ \E j \in 1..Len(rawEdges) :
                rawEdges[j].s = class_rows[i].ClassId /\ rawEdges[j].t = class_rows[i].ClassId
          /\ \E j \in 1..Len(rawEdges) :
                rawEdges[j].s = class_rows[i].ClassId /\ rawEdges[j].t = 0
          /\ 2 * class_rows[i].mets["Instability"] = MetricScale

\* The population of the example: ten classes, LOC 10 nine times, then 1000.
LocExample ==
    /\ Len(rawClasses) = 10
    /\ \A i \in 1..9 : rawClasses[i].metrics["LOC"] = 10
    /\ rawClasses[10].metrics["LOC"] = 1000

\* The risk of metric m of row i under the frozen statistics of its column.
RiskIn(i, m) == RobustRisk(class_rows[i].mets[m], stats[m].med, stats[m].mad)

\* C8: in a column with MAD = 0 a class at the median has risk exactly 0.5 and
\* a class above it exactly 1.0; for LOC = [10 x 9, 1000] the median is 10, the
\* MAD 0, the nine have risk 0.5, the outlier 1.0 and the highest Size risk.
C8_ZeroMadSaturates ==
    Scored =>
       /\ \A m \in AllMetrics : stats[m].mad = 0 =>
             \A i \in Rows :
                /\ class_rows[i].mets[m] = stats[m].med => 2 * RiskIn(i, m) = RiskUnit
                /\ class_rows[i].mets[m] > stats[m].med => RiskIn(i, m) = RiskUnit
       /\ LocExample =>
             /\ stats["LOC"].med = 10 * MetricScale
             /\ stats["LOC"].mad = 0
             /\ \A i \in 1..9 : 2 * RiskIn(i, "LOC") = RiskUnit
             /\ RiskIn(10, "LOC") = RiskUnit
             /\ \A i \in 1..9 : class_rows[10].R_size > class_rows[i].R_size

\* The example population, scored.
C8_Witness ==
    /\ Scored
    /\ LocExample
    /\ rawEdges = <<>>
    /\ 3 * class_rows[10].R_size = 2 * CatDen

\* 0.20*Size + 0.25*Complexity + 0.35*Coupling + 0.20*Architecture of a row,
\* over 100 * CatDen.
RClassOf(r) == 20 * r.R_size + 25 * r.R_complexity + 35 * r.R_coupling + 20 * r.R_architecture

\* The category risks and R_class of every row are in [0,1], CQS in [0,100];
\* in binary64 CQS = 100 - d * 2^-46 with d >= 0.
InRange ==
    /\ Scored =>
          \A i \in Rows :
             LET r == class_rows[i]
             IN /\ \A c \in Causes : 0 <= RiskOf(r, c) /\ RiskOf(r, c) <= CatDen
                /\ 0 <= RClassOf(r) /\ RClassOf(r) <= 100 * CatDen
                /\ 0 <= r.CQS /\ r.CQS <= 100 * CatDen
    /\ pc = "probed" => \A i \in 1..2 : fine.CQS[i] >= 0

\* C9 as stated: the ranges, and of two classes the one with the strictly
\* larger R_class has the strictly smaller CQS.
C9_StrictlyDecreasing ==
    /\ InRange
    /\ Scored =>
          \A i, j \in Rows :
             RClassOf(class_rows[i]) > RClassOf(class_rows[j])
                => class_rows[i].CQS < class_rows[j].CQS
    /\ pc = "probed" => (fine.R[1] > fine.R[2] => fine.CQS[1] > fine.CQS[2])

\* C9 as the code has it: the ranges, and of two classes the one with the
\* strictly larger R_class has a CQS that is smaller or equal.
C9_NeverIncreasing ==
    /\ InRange
    /\ Scored =>
          \A i, j \in Rows :
             RClassOf(class_rows[i]) > RClassOf(class_rows[j])
                => class_rows[i].CQS <= class_rows[j].CQS
    /\ pc = "probed" => (fine.R[1] > fine.R[2] => fine.CQS[1] >= fine.CQS[2])

\* Two R_class values, one strictly larger, with the same CQS.
C9_Witness ==
    /\ pc = "probed"
    /\ fine.R[1] > fine.R[2]
    /\ fine.CQS[1] = fine.CQS[2]

\* C10: p20 and p50 are the CQS values at indices round((n-1)*0.2) and
\* round((n-1)*0.5) (half-way to the even index) of the ascending list; at
\* least round((n-1)*0.2)+1 classes are REFACTOR, at most n-(round((n-1)*0.5)+1)
\* are OK, never all; a single class is REFACTOR; classes that all have the
\* same CQS are all REFACTOR.
C10_PercentileFloors ==
    Decided =>
       LET n == Len(class_rows)
       IN /\ n >= 1
          /\ IsOrderStatistic(p20, K20(n))
          /\ IsOrderStatistic(p50, K50(n))
          /\ NumWith("REFACTOR") >= K20(n) + 1
          /\ NumWith("OK") <= n - (K50(n) + 1)
          /\ NumWith("OK") < n
          /\ n = 1 => class_rows[1].Decision = "REFACTOR"
          /\ (\A i, j \in Rows : class_rows[i].CQS = class_rows[j].CQS)
                => NumWith("REFACTOR") = n

\* An even population with a half-way median index: two classes of different
\* CQS, p50 the lower one, the other class OK.
C10_Witness ==
    /\ Decided
    /\ Len(class_rows) = 2
    /\ class_rows[1].CQS # class_rows[2].CQS
    /\ \A i \in Rows : p50 <= class_rows[i].CQS
    /\ NumWith("OK") = 1

====
